---- MODULE Spec2Model ----
(***************************************************************************)
(* A model of arkhamdb.py: read_cards_json loads a JSON export of card     *)
(* records, flattens every record into one row (game_name, expansion, id,  *)
(* text) of an in-memory table and writes the table to a parquet file.     *)
(*                                                                         *)
(* Python strings are modelled as sequences of one-character strings, so   *)
(* that str.replace, str.strip and concatenation are computed character by *)
(* character.  A comment beside each literal shows the text it spells.     *)
(***************************************************************************)
EXTENDS Integers, Sequences, FiniteSets, TLC

VARIABLES
    JSON_DATA,       \* the input file data_extract/all_cards.json, as the run finds it
    parquet,         \* the output file arkham_horror_card_data.parquet
    parquet_before,  \* history: the output file as it was when the run started
    pc,              \* position of the run inside read_cards_json
    card_data,       \* the parsed input (line 15)
    df,              \* the table being built (line 12), a sequence of rows
    i,               \* the loop index of line 17
    card,            \* the record under work (line 18)
    card_text,       \* the text under construction (lines 20-26)
    err,             \* the exception that ended the run, "" while there is none
    writes           \* history: successful writes of the output file in this run

vars == <<JSON_DATA, parquet, parquet_before, pc, card_data, df, i, card,
          card_text, err, writes>>

\* The largest input array the model enumerates.
MaxCards == 2

----------------------------------------------------------------------------
(* JSON values as json.loads returns them.  kind is the Python type:       *)
(* "str", "int", "bool", "NoneType", "list" or "dict".  A dict keeps its   *)
(* insertion order in items, as a sequence of [key, val] pairs.            *)

JStr(s)     == [kind |-> "str",      chars |-> s,    num |-> 0, flag |-> FALSE, items |-> <<>>]
JNum(n)     == [kind |-> "int",      chars |-> <<>>, num |-> n, flag |-> FALSE, items |-> <<>>]
JBool(b)    == [kind |-> "bool",     chars |-> <<>>, num |-> 0, flag |-> b,     items |-> <<>>]
JNull       == [kind |-> "NoneType", chars |-> <<>>, num |-> 0, flag |-> FALSE, items |-> <<>>]
JArr(items) == [kind |-> "list",     chars |-> <<>>, num |-> 0, flag |-> FALSE, items |-> items]
JObj(pairs) == [kind |-> "dict",     chars |-> <<>>, num |-> 0, flag |-> FALSE, items |-> pairs]
Pair(k, v)  == [key |-> k, val |-> v]

\* A local variable that has not been assigned yet.
Unbound     == [kind |-> "unbound",  chars |-> <<>>, num |-> 0, flag |-> FALSE, items |-> <<>>]

----------------------------------------------------------------------------
(* The string operations of lines 24-26.                                   *)

\* Characters str.strip() removes from both ends.
Whitespace == {" ", "\t", "\n", "\r", "\f"}

RECURSIVE Join(_, _)
\* sep.join(parts)
Join(parts, sep) ==
    IF parts = <<>> THEN <<>>
    ELSE IF Len(parts) = 1 THEN parts[1]
    ELSE parts[1] \o sep \o Join(Tail(parts), sep)

\* The decimal digits of a natural number.
Digit(d) == <<"0","1","2","3","4","5","6","7","8","9">>[d + 1]

RECURSIVE Digits(_)
Digits(n) == IF n < 10 THEN <<Digit(n)>> ELSE Digits(n \div 10) \o <<Digit(n % 10)>>

\* str(n) of an int
StrInt(n) == IF n < 0 THEN <<"-">> \o Digits(0 - n) ELSE Digits(n)

RECURSIVE Repr(_)
\* repr(v): how str() of a list or dict renders a nested value.  A string is
\* put between single quotes; the strings of the model hold no quote,
\* backslash or control character, which repr would escape.
Repr(v) ==
    CASE v.kind = "str"      -> <<"'">> \o v.chars \o <<"'">>
      [] v.kind = "int"      -> StrInt(v.num)
      [] v.kind = "bool"     -> IF v.flag THEN <<"T","r","u","e">> ELSE <<"F","a","l","s","e">>
      [] v.kind = "NoneType" -> <<"N","o","n","e">>
      [] v.kind = "list"     ->
            <<"[">> \o Join([k \in 1..Len(v.items) |-> Repr(v.items[k])], <<","," ">>)
                    \o <<"]">>
      [] v.kind = "dict"     ->
            <<"{">> \o Join([k \in 1..Len(v.items) |->
                               <<"'">> \o v.items[k].key \o <<"'">> \o <<":"," ">>
                                       \o Repr(v.items[k].val)], <<","," ">>)
                    \o <<"}">>

\* str(card[key]) of line 24: a string is itself, every other value is its repr.
Str(v) == IF v.kind = "str" THEN v.chars ELSE Repr(v)

RECURSIVE Replace(_, _)
\* s.replace(old, ''): every occurrence of old found scanning left to right,
\* without overlap, is removed; the result is not scanned again.
Replace(s, old) ==
    IF Len(s) < Len(old) THEN s
    ELSE IF SubSeq(s, 1, Len(old)) = old
         THEN Replace(SubSeq(s, Len(old) + 1, Len(s)), old)
         ELSE <<Head(s)>> \o Replace(Tail(s), old)

RECURSIVE LStrip(_)
LStrip(s) == IF s # <<>> /\ Head(s) \in Whitespace THEN LStrip(Tail(s)) ELSE s

RECURSIVE RStrip(_)
RStrip(s) ==
    IF s # <<>> /\ s[Len(s)] \in Whitespace THEN RStrip(SubSeq(s, 1, Len(s) - 1)) ELSE s

\* s.strip()
Strip(s) == RStrip(LStrip(s))

\* Fault injection: the trim is forgotten.
CleanNoStrip(s) == Replace(Replace(s, <<"<","b",">">>), <<"<","/","b",">">>)

\* line 25: value.replace('<b>','').replace('</b>','').strip()
Clean(s) == Strip(Replace(Replace(s, <<"<","b",">">>), <<"<","/","b",">">>))

----------------------------------------------------------------------------
(* The per-record transformation, lines 20-27.                             *)

\* line 20
Prefix == <<"G","a","m","e"," ","N","a","m","e"," ",":"," ","A","r","k","h","a","m"," ","H","o","r","r","o","r">>

\* Fault injection: 'spoiler' is lost from the list.
ExclusionListShort ==
    << <<"d","e","c","k","_","r","e","q","u","i","r","e","m","e","n","t","s">>, <<"d","e","c","k","_","o","p","t","i","o","n","s">>, <<"d","o","u","b","l","e","_","s","i","d","e","d">>, <<"o","c","t","g","n","_","i","d">>,
       <<"u","r","l">>, <<"i","m","a","g","e","s","r","c">>, <<"b","a","c","k","i","m","a","g","e","s","r","c">>, <<"d","u","p","l","i","c","a","t","e","d","_","b","y">>,
       <<"a","l","t","e","r","n","a","t","e","d","_","b","y">>, <<"i","l","l","u","s","t","r","a","t","o","r">>, <<"e","r","r","a","t","a","_","d","a","t","e">>, <<"r","e","s","t","r","i","c","t","i","o","n","s">> >>

\* The list literal of lines 22-23.
ExclusionList ==
    << <<"d","e","c","k","_","r","e","q","u","i","r","e","m","e","n","t","s">>, <<"d","e","c","k","_","o","p","t","i","o","n","s">>, <<"d","o","u","b","l","e","_","s","i","d","e","d">>, <<"o","c","t","g","n","_","i","d">>,
       <<"u","r","l">>, <<"i","m","a","g","e","s","r","c">>, <<"b","a","c","k","i","m","a","g","e","s","r","c">>, <<"d","u","p","l","i","c","a","t","e","d","_","b","y">>,
       <<"a","l","t","e","r","n","a","t","e","d","_","b","y">>, <<"i","l","l","u","s","t","r","a","t","o","r">>, <<"e","r","r","a","t","a","_","d","a","t","e">>, <<"r","e","s","t","r","i","c","t","i","o","n","s">>,
       <<"s","p","o","i","l","e","r">> >>

\* `key in [...]` of line 22: == against every element of the list.  A key
\* that is not a string (an item of a list that stands where a record
\* should) equals none of them.
InExclusionList(key) ==
    /\ key.kind = "str"
    /\ \E j \in 1..Len(ExclusionList) : ExclusionList[j] = key.chars

\* What `for key in card` of line 21 iterates over: the keys of a dict in
\* insertion order, the characters of a str, the items of a list.
IterItems(v) ==
    CASE v.kind = "dict" -> [k \in 1..Len(v.items) |-> JStr(v.items[k].key)]
      [] v.kind = "str"  -> [k \in 1..Len(v.chars) |-> JStr(<<v.chars[k]>>)]
      [] v.kind = "list" -> v.items
      [] OTHER           -> <<>>

\* Fault injection: every key is taken to be present.
HasKeyAlways(v, k) == TRUE

\* Whether card[k] finds k (a dict only).
HasKey(v, k) == v.kind = "dict" /\ \E j \in 1..Len(v.items) : v.items[j].key = k

\* card[k] of a dict that has k; None stands for a missing key.
Lookup(v, k) ==
    IF v.kind = "dict" /\ \E j \in 1..Len(v.items) : v.items[j].key = k
    THEN v.items[CHOOSE j \in 1..Len(v.items) : v.items[j].key = k].val
    ELSE JNull

\* Fault injection: the row stores the cleaned strings instead of the values.
MakeRowCleaned(c, t) ==
    [game_name |-> <<"A","r","k","h","a","m"," ","H","o","r","r","o","r">>,
     expansion |-> JStr(Clean(Str(Lookup(c, <<"p","a","c","k","_","n","a","m","e">>)))),
     id        |-> JStr(Clean(Str(Lookup(c, <<"c","o","d","e">>)))),
     text      |-> t]

\* The list on the right of line 27.
MakeRow(c, t) ==
    [game_name |-> <<"A","r","k","h","a","m"," ","H","o","r","r","o","r">>,
     expansion |-> Lookup(c, <<"p","a","c","k","_","n","a","m","e">>),
     id        |-> Lookup(c, <<"c","o","d","e">>),
     text      |-> t]

\* line 26: what one key adds to card_text.
Fragment(key, v) == <<","," ">> \o key \o <<" ",":"," ">> \o v

RECURSIVE TextLoop(_, _, _)
\* Lines 21-26 from the k-th iterated key on, with acc the card_text so far.
\* ok is FALSE when the loop raises: line 24 (card[key] on a str or a list
\* with a str key) or line 26 (", "+key with a key that is no str) raise
\* TypeError on the first key of a non-dict that is not skipped.
TextLoop(c, k, acc) ==
    IF k > Len(IterItems(c)) THEN [text |-> acc, ok |-> TRUE]
    ELSE LET key == IterItems(c)[k] IN
         IF InExclusionList(key) THEN TextLoop(c, k + 1, acc)
         ELSE IF c.kind # "dict" THEN [text |-> acc, ok |-> FALSE]
         ELSE TextLoop(c, k + 1,
                       acc \o Fragment(key.chars, Clean(Str(Lookup(c, key.chars)))))

\* Whether `for key in card` itself raises TypeError (line 21).
NotIterable(v) == v.kind \in {"int", "bool", "NoneType"}

\* Fault injection: the row label is always 0, so the row replaces row 0.
LocSetFirst(table, row) ==
    IF table = <<>> THEN <<row>> ELSE <<row>> \o Tail(table)

\* Fault injection: the new row is put in front.
LocSetFront(table, row) == <<row>> \o table

\* df.loc[len(df)] = row (line 27): the label len(df) is new, the row is added
\* at the end.
LocSet(table, row) == Append(table, row)

----------------------------------------------------------------------------
(* The loop of lines 17-18.                                                *)

\* len(card_data) raises TypeError.
LenRaises(v) == v.kind \in {"int", "bool", "NoneType"}

\* len(card_data), for the values that have one.
PyLen(v) ==
    CASE v.kind = "str" -> Len(v.chars)
      [] OTHER          -> Len(v.items)

\* Fault injection: the range stops one short.
RangeDoneEarly(idx, n) == idx + 1 >= n

\* range(len(card_data)) is exhausted.
RangeDone(idx, n) == idx >= n

\* card_data[i] raises: a dict from JSON has only str keys, so an int key
\* raises KeyError.
IndexRaises(v) == v.kind = "dict"

\* card_data[idx] of a list or a str (0-based).
Index(v, idx) ==
    IF v.kind = "str" THEN JStr(<<v.chars[idx + 1]>>) ELSE v.items[idx + 1]

----------------------------------------------------------------------------
(* The files.                                                              *)

Absent      == [state |-> "absent",    rows |-> <<>>]
Truncated   == [state |-> "truncated", rows |-> <<>>]
Table(rows) == [state |-> "table",     rows |-> rows]

\* The input file: missing or unreadable, not JSON, or a JSON text.
Missing      == [state |-> "missing",   json |-> Unbound]
Malformed    == [state |-> "malformed", json |-> Unbound]
Document(v)  == [state |-> "json",      json |-> v]

\* Fault injection: a parse error is swallowed and an empty list stands in.
ParseLenient(f) == [ok |-> TRUE, value |-> IF f.state = "json" THEN f.json ELSE JArr(<<>>)]

\* json.loads(file.read()) of line 15.
Parse(f) == [ok |-> f.state = "json", value |-> f.json]

----------------------------------------------------------------------------
(* The inputs the model enumerates.                                        *)

\* {"code":"01001","pack_name":"Core Set","name":"Roland Banks","spoiler":true}
RolandBanks ==
    JObj(<< Pair(<<"c","o","d","e">>, JStr(<<"0","1","0","0","1">>)),
            Pair(<<"p","a","c","k","_","n","a","m","e">>, JStr(<<"C","o","r","e"," ","S","e","t">>)),
            Pair(<<"n","a","m","e">>, JStr(<<"R","o","l","a","n","d"," ","B","a","n","k","s">>)),
            Pair(<<"s","p","o","i","l","e","r">>, JBool(TRUE)) >>)

\* {"pack_name":" <b>The Dunwich Legacy</b> ","url":"u","code":" 02001",
\*  "name":"x, url : u","text":"  <b>Elder Sign</b>. ","cost":3,"subname":null,
\*  "deck_requirements":{"size":30},"traits":["Spell","<b>"],"flavor":"<<b>b>"}
DunwichCard ==
    JObj(<< Pair(<<"p","a","c","k","_","n","a","m","e">>, JStr(<<" ","<","b",">","T","h","e"," ","D","u","n","w","i","c","h"," ","L","e","g","a","c","y","<","/","b",">"," ">>)),
            Pair(<<"u","r","l">>, JStr(<<"u">>)),
            Pair(<<"c","o","d","e">>, JStr(<<" ","0","2","0","0","1">>)),
            Pair(<<"n","a","m","e">>, JStr(<<"x",","," ","u","r","l"," ",":"," ","u">>)),
            Pair(<<"t","e","x","t">>, JStr(<<" "," ","<","b",">","E","l","d","e","r"," ","S","i","g","n","<","/","b",">","."," ">>)),
            Pair(<<"c","o","s","t">>, JNum(3)),
            Pair(<<"s","u","b","n","a","m","e">>, JNull),
            Pair(<<"d","e","c","k","_","r","e","q","u","i","r","e","m","e","n","t","s">>, JObj(<< Pair(<<"s","i","z","e">>, JNum(30)) >>)),
            Pair(<<"t","r","a","i","t","s">>, JArr(<< JStr(<<"S","p","e","l","l">>), JStr(<<"<","b",">">>) >>)),
            Pair(<<"f","l","a","v","o","r">>, JStr(<<"<","<","b",">","b",">">>)) >>)

\* {"code":"01002","name":"Daisy Walker"}: no pack_name
NoPackName ==
    JObj(<< Pair(<<"c","o","d","e">>, JStr(<<"0","1","0","0","2">>)),
            Pair(<<"n","a","m","e">>, JStr(<<"D","a","i","s","y"," ","W","a","l","k","e","r">>)) >>)

\* {"illustrator":"x","pack_name":"Core Set"}: no code
NoCode ==
    JObj(<< Pair(<<"i","l","l","u","s","t","r","a","t","o","r">>, JStr(<<"x">>)),
            Pair(<<"p","a","c","k","_","n","a","m","e">>, JStr(<<"C","o","r","e"," ","S","e","t">>)) >>)

\* The array elements: five objects, then values of every other JSON kind:
\* 7, true, null, "", "a", ["url"].
Elements ==
    << RolandBanks, DunwichCard, NoPackName, NoCode, JObj(<<>>),
       JNum(7), JBool(TRUE), JNull, JStr(<<>>), JStr(<<"a">>),
       JArr(<<JStr(<<"u","r","l">>)>>) >>

\* Top-level values that are no array: 7, false, null, "", "ab", {}, an
\* object that holds one card, and {"cards":[]}.
TopLevels ==
    << JNum(7), JBool(FALSE), JNull, JStr(<<>>), JStr(<<"a","b">>), JObj(<<>>),
       RolandBanks, JObj(<< Pair(<<"c","a","r","d","s">>, JArr(<<>>)) >>) >>

----------------------------------------------------------------------------
(* The run.  pc is "idle" before the process starts, then "open" (lines 14-15), *)
(* "for" (line 17-18), "text" (lines 20-26), "row" (line 27), "write"      *)
(* (line 29), and "done" or "raised" once the process has ended.           *)

\* The rows read_cards_json makes of an array of well-formed records.
RowsOf(records) ==
    [k \in 1..Len(records) |-> MakeRow(records[k], TextLoop(records[k], 1, Prefix).text)]

\* The output file as a run may find it: not there, cut short by a write that
\* broke off, or left by an earlier run that succeeded.
EarlierFiles ==
    << Absent, Truncated, Table(<<>>), Table(RowsOf(<<RolandBanks>>)),
       Table(RowsOf(<<DunwichCard, RolandBanks>>)) >>

Init ==
    /\ JSON_DATA = Missing
    /\ \E k \in 1..Len(EarlierFiles) : parquet = EarlierFiles[k]
    /\ parquet_before = parquet
    /\ pc = "idle"
    /\ card_data = Unbound
    /\ df = <<>>
    /\ i = 0
    /\ card = Unbound
    /\ card_text = <<>>
    /\ err = ""
    /\ writes = 0

\* The process starts with the input file as `input`; line 12 makes the
\* empty table.
Start(input) ==
    /\ pc = "idle"
    /\ JSON_DATA' = input
    /\ parquet_before' = parquet
    /\ pc' = "open"
    /\ card_data' = Unbound
    /\ df' = <<>>
    /\ i' = 0
    /\ card' = Unbound
    /\ card_text' = <<>>
    /\ err' = ""
    /\ writes' = 0
    /\ UNCHANGED parquet

\* A run on an input that holds an array of up to MaxCards elements.
StartArray ==
    \E n \in 0..MaxCards : \E pick \in [1..n -> 1..Len(Elements)] :
        Start(Document(JArr([k \in 1..n |-> Elements[pick[k]]])))

\* A run on an input whose top-level value is no array.
StartOther ==
    \E k \in 1..Len(TopLevels) : Start(Document(TopLevels[k]))

\* A run on an input that is missing, or is no JSON.
StartUnreadable ==
    \E bad \in {Missing, Malformed} : Start(bad)

Raise(exception) ==
    /\ pc' = "raised"
    /\ err' = exception

\* Lines 14-15: open, read, parse.
Load ==
    /\ pc = "open"
    /\ IF JSON_DATA.state = "missing"
       THEN /\ Raise("FileNotFoundError")
            /\ UNCHANGED card_data
       ELSE IF ~Parse(JSON_DATA).ok
       THEN /\ Raise("JSONDecodeError")
            /\ UNCHANGED card_data
       ELSE /\ card_data' = Parse(JSON_DATA).value
            /\ pc' = "for"
            /\ UNCHANGED err
    /\ UNCHANGED <<JSON_DATA, parquet, parquet_before, df, i, card, card_text, writes>>

\* Lines 17-18: the next index of range(len(card_data)), and card = card_data[i].
\* i is the number of rounds completed so far.
ForNext ==
    /\ pc = "for"
    /\ IF LenRaises(card_data)
       THEN /\ Raise("TypeError")
            /\ UNCHANGED card
       ELSE IF RangeDone(i, PyLen(card_data))
       THEN /\ pc' = "write"
            /\ UNCHANGED <<card, err>>
       ELSE IF IndexRaises(card_data)
       THEN /\ Raise("KeyError")
            /\ UNCHANGED card
       ELSE /\ card' = Index(card_data, i)
            /\ pc' = "text"
            /\ UNCHANGED err
    /\ UNCHANGED <<JSON_DATA, parquet, parquet_before, card_data, df, i, card_text, writes>>

\* Lines 20-26: card_text is built from the record.
BuildText ==
    /\ pc = "text"
    /\ IF NotIterable(card)
       THEN /\ card_text' = Prefix
            /\ Raise("TypeError")
       ELSE /\ card_text' = TextLoop(card, 1, Prefix).text
            /\ IF TextLoop(card, 1, Prefix).ok
               THEN pc' = "row" /\ UNCHANGED err
               ELSE Raise("TypeError")
    /\ UNCHANGED <<JSON_DATA, parquet, parquet_before, card_data, df, i, card, writes>>

\* Line 27: the row is made, card['pack_name'] first and card['code'] second,
\* and added to the table.  Indexing a str or a list with a str raises
\* TypeError, a dict without the key raises KeyError.
AppendRow ==
    /\ pc = "row"
    /\ IF card.kind # "dict"
       THEN /\ Raise("TypeError")
            /\ UNCHANGED <<df, i>>
       ELSE IF ~HasKey(card, <<"p","a","c","k","_","n","a","m","e">>) \/ ~HasKey(card, <<"c","o","d","e">>)
       THEN /\ Raise("KeyError")
            /\ UNCHANGED <<df, i>>
       ELSE /\ df' = LocSet(df, MakeRow(card, card_text))
            /\ i' = i + 1
            /\ pc' = "for"
            /\ UNCHANGED err
    /\ UNCHANGED <<JSON_DATA, parquet, parquet_before, card_data, card, card_text, writes>>

\* Line 29: the table is written and the process ends.
Write ==
    /\ pc = "write"
    /\ parquet' = Table(df)
    /\ writes' = writes + 1
    /\ pc' = "done"
    /\ UNCHANGED <<JSON_DATA, parquet_before, card_data, df, i, card, card_text, err>>

\* Line 29 fails (the path is unwritable, the disk is full): the file is as
\* it was when it could not be opened, and cut short when the write broke off.
WriteFails ==
    /\ pc = "write"
    /\ \E after \in {parquet, Truncated} : parquet' = after
    /\ Raise("OSError")
    /\ UNCHANGED <<JSON_DATA, parquet_before, card_data, df, i, card, card_text, writes>>

Next ==
    \/ StartArray
    \/ StartOther
    \/ StartUnreadable
    \/ Load
    \/ ForNext
    \/ BuildText
    \/ AppendRow
    \/ Write
    \/ WriteFails

Spec == Init /\ [][Next]_vars

----------------------------------------------------------------------------
(* What the properties below are stated in: the input as the run found it, *)
(* and the rows and the text as the specification words them, written as a *)
(* filter and a concatenation instead of the loop of lines 21-26.          *)

\* The input is JSON and its top-level value is an array.
IsArray == JSON_DATA.state = "json" /\ JSON_DATA.json.kind = "list"

\* The elements of the input array.
Input == IF IsArray THEN JSON_DATA.json.items ELSE <<>>

HasField(c, k) == \E j \in 1..Len(c.items) : c.items[j].key = k

Field(c, k) == c.items[CHOOSE j \in 1..Len(c.items) : c.items[j].key = k].val

\* An object that has pack_name and code.
WellFormed(c) ==
    c.kind = "dict" /\ HasField(c, <<"p","a","c","k","_","n","a","m","e">>) /\ HasField(c, <<"c","o","d","e">>)

\* A valid input: an array of objects that each have pack_name and code.
ValidInput == IsArray /\ \A k \in 1..Len(Input) : WellFormed(Input[k])

\* The 13 excluded keys.
ExcludedKeys ==
    { <<"d","e","c","k","_","r","e","q","u","i","r","e","m","e","n","t","s">>, <<"d","e","c","k","_","o","p","t","i","o","n","s">>, <<"d","o","u","b","l","e","_","s","i","d","e","d">>, <<"o","c","t","g","n","_","i","d">>,
      <<"u","r","l">>, <<"i","m","a","g","e","s","r","c">>, <<"b","a","c","k","i","m","a","g","e","s","r","c">>, <<"d","u","p","l","i","c","a","t","e","d","_","b","y">>,
      <<"a","l","t","e","r","n","a","t","e","d","_","b","y">>, <<"i","l","l","u","s","t","r","a","t","o","r">>, <<"e","r","r","a","t","a","_","d","a","t","e">>, <<"r","e","s","t","r","i","c","t","i","o","n","s">>,
      <<"s","p","o","i","l","e","r">> }

IsKept(p) == p.key \notin ExcludedKeys

RECURSIVE Concat(_)
Concat(parts) == IF parts = <<>> THEN <<>> ELSE Head(parts) \o Concat(Tail(parts))

\* The value of a field as text says it: stringified, both tags removed, trimmed.
Shown(v) == Strip(Replace(Replace(Str(v), <<"<","b",">">>), <<"<","/","b",">">>))

\* ", <key> : <value>"
Piece(p) == <<","," ">> \o p.key \o <<" ",":"," ">> \o Shown(p.val)

\* The prefix, then one piece for each of the given fields, in their order.
TextOf(fields) ==
    <<"G","a","m","e"," ","N","a","m","e"," ",":"," ","A","r","k","h","a","m"," ","H","o","r","r","o","r">> \o Concat([k \in 1..Len(fields) |-> Piece(fields[k])])

\* The text of a record: the pieces of its non-excluded fields.
ExpectedText(c) == TextOf(SelectSeq(c.items, IsKept))

\* The row of a well-formed record.
ExpectedRow(c) ==
    [game_name |-> <<"A","r","k","h","a","m"," ","H","o","r","r","o","r">>,
     expansion |-> Field(c, <<"p","a","c","k","_","n","a","m","e">>),
     id        |-> Field(c, <<"c","o","d","e">>),
     text      |-> ExpectedText(c)]

\* sub occurs in s
Contains(s, sub) ==
    \E k \in 1..(Len(s) - Len(sub) + 1) : SubSeq(s, k, k + Len(sub) - 1) = sub

\* The rows the run has made so far, and the rows of the file once written.
RowsMade == IF writes > 0 /\ parquet.state = "table" THEN parquet.rows ELSE df

\* The first element of the input array that is not a well-formed record,
\* 0 when there is none.
FirstBad ==
    IF \E k \in 1..Len(Input) : ~WellFormed(Input[k])
    THEN CHOOSE k \in 1..Len(Input) :
            ~WellFormed(Input[k]) /\ \A j \in 1..(k - 1) : WellFormed(Input[j])
    ELSE 0

----------------------------------------------------------------------------
(* C1.  For every valid input, a run that completes has written a table    *)
(* with exactly as many rows as the input array has elements; and a run on *)
(* a valid input ends otherwise only when the write itself fails.          *)
C1_RowCount ==
    ValidInput =>
        /\ pc = "done" => /\ parquet.state = "table"
                          /\ Len(parquet.rows) = Len(Input)
                          /\ Len(df) = Len(Input)
        /\ pc = "raised" => err = "OSError"

C1_Witness ==
    /\ ValidInput /\ pc = "done"
    /\ Len(Input) = 2
    /\ Len(parquet.rows) = 2

(* C2.  For every valid input, row j is the row of input element j at      *)
(* every moment of the run and in the file, and a step of the run leaves   *)
(* every row that was already in the table where and as it was.            *)
C2_Order ==
    /\ [](ValidInput =>
            /\ Len(df) <= Len(Input)
            /\ \A j \in 1..Len(df) : df[j] = ExpectedRow(Input[j])
            /\ pc = "done" => parquet.rows = [j \in 1..Len(Input) |-> ExpectedRow(Input[j])])
    /\ [][\A j \in 1..Len(df) : Len(df') >= j /\ df'[j] = df[j]]_vars

C2_Witness ==
    /\ ValidInput /\ pc = "done"
    /\ Len(Input) = 2 /\ Input[1] # Input[2]
    /\ parquet.rows[1] = ExpectedRow(Input[1])
    /\ parquet.rows[2] = ExpectedRow(Input[2])
    /\ parquet.rows[1] # parquet.rows[2]

(* C3.  Every row, in the table and in the file, has the record's          *)
(* pack_name value as expansion and its code value as id, the values       *)
(* themselves and not what text shows of them, and "Arkham Horror" as      *)
(* game_name.                                                              *)
C3_Columns ==
    IsArray =>
        /\ Len(RowsMade) <= Len(Input)
        /\ \A j \in 1..Len(RowsMade) :
              /\ WellFormed(Input[j])
              /\ RowsMade[j].expansion = Field(Input[j], <<"p","a","c","k","_","n","a","m","e">>)
              /\ RowsMade[j].id = Field(Input[j], <<"c","o","d","e">>)
              /\ RowsMade[j].game_name = <<"A","r","k","h","a","m"," ","H","o","r","r","o","r">>

\* A written row whose pack_name and code are not what text shows of them.
C3_Witness ==
    /\ pc = "done" /\ IsArray
    /\ \E j \in 1..Len(parquet.rows) :
          /\ parquet.rows[j].expansion = JStr(<<" ","<","b",">","T","h","e"," ","D","u","n","w","i","c","h"," ","L","e","g","a","c","y","<","/","b",">"," ">>)
          /\ parquet.rows[j].id = JStr(<<" ","0","2","0","0","1">>)
          /\ Shown(parquet.rows[j].expansion) # parquet.rows[j].expansion.chars
          /\ Contains(parquet.rows[j].text, <<","," ","p","a","c","k","_","n","a","m","e"," ",":"," ","T","h","e"," ","D","u","n","w","i","c","h"," ","L","e","g","a","c","y",","," ">>)

(* C4.  The text of a row made from a record one of whose non-excluded     *)
(* values contains <b> or </b> contains neither <b> nor </b>.              *)
C4_NoMarkup ==
    IsArray =>
        \A j \in 1..Len(RowsMade) :
            (\E k \in 1..Len(Input[j].items) :
                /\ IsKept(Input[j].items[k])
                /\ \/ Contains(Str(Input[j].items[k].val), <<"<","b",">">>)
                   \/ Contains(Str(Input[j].items[k].val), <<"<","/","b",">">>))
            => /\ ~Contains(RowsMade[j].text, <<"<","b",">">>)
               /\ ~Contains(RowsMade[j].text, <<"<","/","b",">">>)

(* C5.  If the top-level value is not an array, or an element of the array  *)
(* is not an object, the run does not complete and writes no file.         *)
NotArrayOfObjects ==
    /\ JSON_DATA.state = "json"
    /\ \/ JSON_DATA.json.kind # "list"
       \/ \E k \in 1..Len(Input) : Input[k].kind # "dict"

C5_Aborts == NotArrayOfObjects => (pc # "done" /\ writes = 0)

\* The top-level value is "" or {}.
EmptyNonArray ==
    /\ JSON_DATA.state = "json"
    /\ \/ JSON_DATA.json.kind = "str" /\ JSON_DATA.json.chars = <<>>
       \/ JSON_DATA.json.kind = "dict" /\ JSON_DATA.json.items = <<>>

(* What the code does do about C5.  With a top-level number, boolean,      *)
(* null, non-empty string or non-empty object, or an array element that is *)
(* not an object, the run never reaches the write, ends only by raising    *)
(* TypeError or KeyError, and leaves the output file alone.  A top-level   *)
(* "" or {} has length 0: the loop runs no round and the run writes a      *)
(* table of no rows, unless the write fails.                               *)
C5_OtherShapes ==
    /\ (NotArrayOfObjects /\ ~EmptyNonArray) =>
          /\ pc \notin {"write", "done"}
          /\ writes = 0
          /\ parquet = parquet_before
          /\ pc = "raised" => err \in {"TypeError", "KeyError"}
    /\ EmptyNonArray =>
          /\ pc = "done" => parquet = Table(<<>>)
          /\ pc = "raised" => err = "OSError"

(* C6, as stated.  For no excluded key k with value v of a record does the *)
(* row's text contain ", k : v" (v as text shows a value).                 *)
C6_Original ==
    IsArray =>
        \A j \in 1..Len(RowsMade) : \A k \in 1..Len(Input[j].items) :
            ~IsKept(Input[j].items[k])
                => ~Contains(RowsMade[j].text, Piece(Input[j].items[k]))

(* C6, amended.  The loop adds nothing for an excluded key: the row's text *)
(* is the prefix and the pieces of the other fields, so ", k : v" of an    *)
(* excluded key is in the text only where those other fields spell it.     *)
C6_Amended ==
    IsArray =>
        \A j \in 1..Len(RowsMade) :
            /\ RowsMade[j].text = TextOf(SelectSeq(Input[j].items, IsKept))
            /\ \A k \in 1..Len(Input[j].items) :
                  (/\ ~IsKept(Input[j].items[k])
                   /\ Contains(RowsMade[j].text, Piece(Input[j].items[k])))
                  => Contains(TextOf(SelectSeq(Input[j].items, IsKept)),
                              Piece(Input[j].items[k]))

\* A written row of a record with an excluded key whose piece is not in the text.
C6_Witness ==
    /\ pc = "done" /\ IsArray
    /\ \E j \in 1..Len(parquet.rows) : \E k \in 1..Len(Input[j].items) :
          /\ Input[j].items[k].key = <<"s","p","o","i","l","e","r">>
          /\ ~Contains(parquet.rows[j].text, <<"s","p","o","i","l","e","r">>)

(* C7.  The text of every row is the prefix "Game Name : Arkham Horror"    *)
(* followed, for each non-excluded key in the record's order, by           *)
(* ", <key> : <value>", the value stringified, without <b> and </b>,       *)
(* trimmed; pack_name and code are in it.  The two records of the model    *)
(* that make rows give the texts Python gives for them.                    *)
C7_Text ==
    IsArray =>
        \A j \in 1..Len(RowsMade) :
            /\ RowsMade[j].text = ExpectedText(Input[j])
            /\ Contains(RowsMade[j].text, Piece([key |-> <<"p","a","c","k","_","n","a","m","e">>,
                                                 val |-> Field(Input[j], <<"p","a","c","k","_","n","a","m","e">>)]))
            /\ Contains(RowsMade[j].text, Piece([key |-> <<"c","o","d","e">>,
                                                 val |-> Field(Input[j], <<"c","o","d","e">>)]))
            /\ Input[j] = RolandBanks =>
                 RowsMade[j].text = <<"G","a","m","e"," ","N","a","m","e"," ",":"," ","A","r","k","h","a","m"," ","H","o","r","r","o","r",","," ","c","o","d","e"," ",":"," ","0","1","0","0","1",","," ","p","a","c","k","_","n","a","m","e"," ",":"," ","C","o","r","e"," ","S","e","t",","," ","n","a","m","e"," ",":"," ","R","o","l","a","n","d"," ","B","a","n","k","s">>
            /\ Input[j] = DunwichCard =>
                 RowsMade[j].text = <<"G","a","m","e"," ","N","a","m","e"," ",":"," ","A","r","k","h","a","m"," ","H","o","r","r","o","r",","," ","p","a","c","k","_","n","a","m","e"," ",":"," ","T","h","e"," ","D","u","n","w","i","c","h"," ","L","e","g","a","c","y",","," ","c","o","d","e"," ",":"," ","0","2","0","0","1",","," ","n","a","m","e"," ",":"," ","x",","," ","u","r","l"," ",":"," ","u",","," ","t","e","x","t"," ",":"," ","E","l","d","e","r"," ","S","i","g","n",".",","," ","c","o","s","t"," ",":"," ","3",","," ","s","u","b","n","a","m","e"," ",":"," ","N","o","n","e",","," ","t","r","a","i","t","s"," ",":"," ","[","'","S","p","e","l","l","'",","," ","'","'","]",","," ","f","l","a","v","o","r"," ",":"," ","<","b",">">>

\* A written row whose text lost markup and surrounding blanks.
C7_Witness ==
    /\ pc = "done" /\ IsArray
    /\ \E j \in 1..Len(parquet.rows) :
          /\ Input[j] = DunwichCard
          /\ Contains(parquet.rows[j].text, <<","," ","t","e","x","t"," ",":"," ","E","l","d","e","r"," ","S","i","g","n",".",","," ","c","o","s","t"," ",":"," ","3",","," ">>)

(* C8.  When the input is missing or unreadable, is no JSON, or holds a    *)
(* record that fails, at any position, the output file is at every moment  *)
(* of the run what it was before the run; and so it is after any run that  *)
(* raised before the write.                                                *)
FailingInput ==
    \/ JSON_DATA.state \in {"missing", "malformed"}
    \/ IsArray /\ FirstBad > 0

C8_Untouched ==
    /\ (pc # "idle" /\ FailingInput) =>
          /\ parquet = parquet_before
          /\ writes = 0
          /\ pc # "done"
    /\ (pc = "raised" /\ err # "OSError") => parquet = parquet_before

\* The last record of the input fails, and the file of an earlier run stays.
C8_Witness ==
    /\ pc = "raised" /\ IsArray
    /\ Len(Input) = 2 /\ FirstBad = 2 /\ i = 1
    /\ parquet_before.state = "table" /\ Len(parquet_before.rows) = 2
    /\ parquet = parquet_before

(* C9.  The file is written at most once in a run, and only when every     *)
(* element of the input has its row; and no step changes the table once    *)
(* the file is written.                                                    *)
C9_WriteLast ==
    /\ [](/\ writes <= 1
          /\ pc \in {"write", "done"} \/ writes = 1 =>
                /\ JSON_DATA.state = "json"
                /\ i = PyLen(JSON_DATA.json)
                /\ IsArray => /\ Len(df) = Len(Input)
                              /\ \A j \in 1..Len(Input) : WellFormed(Input[j])
          /\ writes = 0 /\ err # "OSError" => parquet = parquet_before
          /\ writes = 1 => pc = "done" /\ parquet = Table(df))
    /\ [][writes = 1 => df' = df /\ writes' = 1]_vars

C9_Witness ==
    /\ writes = 1 /\ pc = "done" /\ IsArray
    /\ Len(Input) = 2 /\ Len(df) = 2
    /\ parquet # parquet_before

(* C10.  When the first record of the array that is not well-formed is an  *)
(* object without pack_name or without code, the run raises KeyError in    *)
(* that record's round, with the record's text built in full and the table *)
(* holding the rows of the records before it and no more, and the output   *)
(* file is not written.                                                    *)
C10_MissingKey ==
    (pc # "idle" /\ IsArray /\ FirstBad > 0 /\ Input[FirstBad].kind = "dict") =>
        /\ Len(df) < FirstBad
        /\ writes = 0 /\ pc \notin {"write", "done"}
        /\ parquet = parquet_before
        /\ pc = "raised" =>
              /\ err = "KeyError"
              /\ i = FirstBad - 1
              /\ card = Input[FirstBad]
              /\ card_text = ExpectedText(Input[FirstBad])
              /\ df = [j \in 1..(FirstBad - 1) |-> ExpectedRow(Input[j])]

\* The second record has no pack_name: its text is built, one row is in the table.
C10_Witness ==
    /\ pc = "raised" /\ err = "KeyError" /\ IsArray
    /\ FirstBad = 2 /\ Input[2] = NoPackName
    /\ card_text = <<"G","a","m","e"," ","N","a","m","e"," ",":"," ","A","r","k","h","a","m"," ","H","o","r","r","o","r",","," ","c","o","d","e"," ",":"," ","0","1","0","0","2",","," ","n","a","m","e"," ",":"," ","D","a","i","s","y"," ","W","a","l","k","e","r">>
    /\ Len(df) = 1
    /\ parquet = parquet_before

====
